---- MODULE Spec2Model ----
(***************************************************************************)
(* RocDec (src/src/lib.rs): a fixed-point decimal made of a signed 64-bit  *)
(* whole word `hi` and an unsigned 64-bit fraction word `lo` holding 19    *)
(* decimal digits.  The model keeps the machine widths: every word is an   *)
(* unbounded natural stored as little-endian base-2^8 limbs and reduced    *)
(* modulo 2^64 / 2^128 exactly where the Rust operation wraps.  An i64 is  *)
(* its two's-complement bit pattern (a natural below 2^64).                *)
(***************************************************************************)
EXTENDS Integers, Sequences, FiniteSets, TLC

(***************************************************************************)
(* Unbounded naturals: little-endian limb sequences without high zero      *)
(* limbs (zero is the empty sequence), so equal numbers are equal values.  *)
(***************************************************************************)
Base == 2^8

\* F applied to the value of v, which is computed once
Bind(v, F(_)) == CHOOSE r \in {F(x) : x \in {v}} : TRUE

Max2(m, n) == IF m >= n THEN m ELSE n

Min2(m, n) == IF m <= n THEN m ELSE n

Limb(x, i) == IF i >= 1 /\ i <= Len(x) THEN x[i] ELSE 0

\* x without its high zero limbs
Norm(x) ==
    LET nz == {i \in 1..Len(x) : x[i] # 0}
    IN  IF Len(x) = 0 THEN <<>>
        ELSE IF x[Len(x)] # 0 THEN x
        ELSE IF nz = {} THEN <<>>
        ELSE SubSeq(x, 1, CHOOSE m \in nz : \A k \in nz : k <= m)

\* The number whose limb i has weight v[i], every v[i] at most 2*Base - 2:
\* a carry enters limb i when a lower limb j overflows and every limb
\* between them passes the carry on.
Resolve(v) ==
    LET n == Len(v)
        CarryIn(i) == \E j \in 1..(i - 1) :
                          /\ v[j] >= Base
                          /\ \A k \in (j + 1)..(i - 1) : v[k] >= Base - 1
    IN  Norm([i \in 1..(n + 1) |->
                 (Limb(v, i) + (IF CarryIn(i) THEN 1 ELSE 0)) % Base])

\* One carry pass: each limb keeps its low part and takes the high part of
\* the limb below.
Pass(v) ==
    [i \in 1..(Len(v) + 1) |-> (Limb(v, i) % Base) + (Limb(v, i - 1) \div Base)]

\* x + y
BAdd(x, y) ==
    Resolve([i \in 1..Max2(Len(x), Len(y)) |-> Limb(x, i) + Limb(y, i)])

\* x - y, for x >= y
BSub(x, y) ==
    LET BorrowIn(i) == \E j \in 1..(i - 1) :
                           /\ x[j] < Limb(y, j)
                           /\ \A k \in (j + 1)..(i - 1) : x[k] <= Limb(y, k)
    IN  Norm([i \in 1..Len(x) |->
                 (x[i] - Limb(y, i) - (IF BorrowIn(i) THEN 1 ELSE 0) + Base) % Base])

\* x < y
BLt(x, y) ==
    \/ Len(x) < Len(y)
    \/ /\ Len(x) = Len(y)
       /\ \E i \in 1..Len(x) :
              /\ x[i] < y[i]
              /\ \A k \in (i + 1)..Len(x) : x[k] = y[k]

\* x <= y
BLe(x, y) == ~BLt(y, x)

\* the sum of x[i] * y[k - i + 1] for i in first..last
RECURSIVE ColSum(_, _, _, _, _)
ColSum(x, y, k, first, last) ==
    IF first > last THEN 0
    ELSE IF first = last THEN x[first] * y[k - first + 1]
    ELSE LET mid == (first + last) \div 2
         IN  ColSum(x, y, k, first, mid) + ColSum(x, y, k, mid + 1, last)

\* x * y, exact: the column sums of the schoolbook product, then carries
BMul(x, y) ==
    IF Len(x) = 0 \/ Len(y) = 0 THEN <<>>
    ELSE LET cols == [k \in 1..(Len(x) + Len(y) - 1) |->
                         ColSum(x, y, k, Max2(1, k - Len(y) + 1), Min2(k, Len(x)))]
         IN  Resolve(Pass(Pass(Pass(cols))))

\* x mod 2^(8*w): the low w limbs
BTrunc(x, w) == Norm(SubSeq(x, 1, Min2(w, Len(x))))

\* floor(x / 2^n)
BShr(x, n) ==
    LET q == n \div 8
        r == n % 8
        t == IF q >= Len(x) THEN <<>> ELSE SubSeq(x, q + 1, Len(x))
    IN  Norm([i \in 1..Len(t) |->
                 (t[i] \div (2^r)) + (Limb(t, i + 1) % (2^r)) * (2^(8 - r))])

\* the remainder of the limbs i..Len(x) of x by a small divisor d
RECURSIVE RemFrom(_, _, _)
RemFrom(x, d, i) ==
    IF i > Len(x) THEN 0 ELSE (RemFrom(x, d, i + 1) * Base + x[i]) % d

\* quotient and remainder of x by a small divisor d (d < 2^8)
BDivSmall(x, d) ==
    [q |-> Norm([i \in 1..Len(x) |-> (RemFrom(x, d, i + 1) * Base + x[i]) \div d]),
     r |-> RemFrom(x, d, 1)]

\* a small natural (below 2^16) as a limb sequence
BNat(n) == Norm(<<n % Base, n \div Base>>)

\* 10^n
RECURSIVE Pow10(_)
Pow10(n) ==
    IF n = 0 THEN <<1>>
    ELSE IF n = 1 THEN <<10>>
    ELSE BMul(Pow10(n \div 2), Pow10(n - (n \div 2)))

\* the natural written by a sequence of decimal digits, most significant first
RECURSIVE FromDigits(_)
FromDigits(ds) ==
    IF Len(ds) = 0 THEN <<>>
    ELSE IF Len(ds) = 1 THEN BNat(ds[1])
    ELSE LET half == Len(ds) \div 2
             high == SubSeq(ds, 1, half)
             low  == SubSeq(ds, half + 1, Len(ds))
         IN  BAdd(BMul(FromDigits(high), Pow10(Len(low))), FromDigits(low))

\* the decimal digits of x, most significant first (zero has no digits)
RECURSIVE ToDigits(_)
ToDigits(x) ==
    IF Len(x) = 0 THEN <<>>
    ELSE LET d == BDivSmall(x, 10) IN ToDigits(d.q) \o <<d.r>>

(***************************************************************************)
(* Machine words.                                                          *)
(***************************************************************************)
TwoPow63 == <<0, 0, 0, 0, 0, 0, 0, 128>>

TwoPow64 == <<0, 0, 0, 0, 0, 0, 0, 0, 1>>

TwoPow128 == <<0, 0, 0, 0, 0, 0, 0, 0, 0, 0, 0, 0, 0, 0, 0, 0, 1>>

Zero == <<>>

One == <<1>>

U64_MAX == BSub(TwoPow64, One)

\* i64::MIN and i64::MAX as bit patterns
I64_MIN == TwoPow63

I64_MAX == BSub(TwoPow63, One)

\* the i64 -1 as a bit pattern
MinusOne == U64_MAX

\* `x as u64` of a wider unsigned value
WrapU64(x) == BTrunc(x, 8)

\* `x as u128` of a wider unsigned value
WrapU128(x) == BTrunc(x, 16)

\* a 256-bit word of ethnum::U256
WrapU256(x) == BTrunc(x, 32)

\* i64::is_negative
IsNegative(h) == BLe(TwoPow63, h)

\* i64::is_positive: strictly greater than zero
IsPositive(h) == h # Zero /\ ~IsNegative(h)

\* two's-complement negation of an i64 bit pattern
NegI64(h) == WrapU64(BSub(TwoPow64, h))

\* the magnitude of an i64 bit pattern, as an unbounded natural
MagI64(h) == IF IsNegative(h) THEN BSub(TwoPow64, h) ELSE h

\* i64::checked_abs: None exactly for i64::MIN
CheckedAbs(h) ==
    IF h = I64_MIN THEN [some |-> FALSE, val |-> Zero]
    ELSE [some |-> TRUE, val |-> MagI64(h)]

\* u64::overflowing_add
OverflowingAddU64(x, y) ==
    Bind(BAdd(x, y), LAMBDA s : [val |-> WrapU64(s), ovf |-> BLe(TwoPow64, s)])

\* u64::overflowing_sub
OverflowingSubU64(x, y) ==
    IF BLt(x, y)
    THEN [val |-> BSub(BAdd(x, TwoPow64), y), ovf |-> TRUE]
    ELSE [val |-> BSub(x, y), ovf |-> FALSE]

\* u64::checked_add
CheckedAddU64(x, y) ==
    LET s == BAdd(x, y)
    IN  IF BLe(TwoPow64, s) THEN [some |-> FALSE, val |-> Zero]
        ELSE [some |-> TRUE, val |-> s]

\* i64::overflowing_add on bit patterns
OverflowingAddI64(x, y) ==
    LET v == WrapU64(BAdd(x, y))
    IN  [val |-> v,
         ovf |-> IsNegative(x) = IsNegative(y) /\ IsNegative(v) # IsNegative(x)]

\* i64::overflowing_sub on bit patterns
OverflowingSubI64(x, y) ==
    LET v == WrapU64(BAdd(x, BSub(TwoPow64, y)))
    IN  [val |-> v,
         ovf |-> IsNegative(x) # IsNegative(y) /\ IsNegative(v) # IsNegative(x)]

\* u128 subtraction, wrapping
WrappingSubU128(x, y) ==
    IF BLt(x, y) THEN BSub(BAdd(x, TwoPow128), y) ELSE BSub(x, y)

(***************************************************************************)
(* RocDec values and the outcome of an operation: a value, the panic of    *)
(* todo!() that reports an arithmetic overflow, or the Err(()) of a parse. *)
(***************************************************************************)
DECIMAL_MAX == FromDigits(<<1, 0, 0, 0, 0, 0, 0, 0, 0, 0, 0, 0, 0, 0, 0, 0, 0, 0, 0, 0>>)

\* RocDec::new
new(hi, lo) == [hi |-> hi, lo |-> lo]

Ok(hi, lo) == [err |-> "none", hi |-> hi, lo |-> lo]

\* the panic of todo!() on an overflow
ArithmeticOverflow == [err |-> "ArithmeticOverflow", hi |-> Zero, lo |-> Zero]

\* Err(()) of try_from
ParseError == [err |-> "ParseError", hi |-> Zero, lo |-> Zero]

IsOk(r) == r.err = "none"

\* the RocDec an Ok outcome carries
Value(r) == new(r.hi, r.lo)

\* impl Add for RocDec
add(self, other) ==
    LET self_is_positive  == IsPositive(self.hi)
        other_is_positive == IsPositive(other.hi)
        added      == OverflowingAddU64(self.lo, other.lo)
        subtracted == OverflowingSubU64(self.lo, other.lo)
        same_sign  == self_is_positive = other_is_positive
        lo         == IF same_sign THEN added.val ELSE subtracted.val
        hi_sign    == IF self_is_positive THEN One ELSE MinusOne
        overflowed == IF same_sign THEN added.ovf ELSE subtracted.ovf
        hi_offset  == IF overflowed THEN hi_sign ELSE Zero
        step2      == OverflowingAddI64(self.hi, hi_offset)
        step3      == OverflowingAddI64(step2.val, other.hi)
    IN  IF step2.ovf \/ step3.ovf THEN ArithmeticOverflow
        ELSE Ok(step3.val, lo)

\* impl Sub for RocDec
sub(self, other) ==
    LET self_is_positive  == IsPositive(self.hi)
        other_is_positive == IsPositive(other.hi)
        added      == OverflowingAddU64(self.lo, other.lo)
        subtracted == OverflowingSubU64(self.lo, other.lo)
        same_sign  == self_is_positive = other_is_positive
        lo         == IF same_sign THEN subtracted.val ELSE added.val
        hi_sign    == IF self_is_positive THEN One ELSE MinusOne
        overflowed == IF same_sign THEN subtracted.ovf ELSE added.ovf
        hi_offset  == IF overflowed THEN hi_sign ELSE Zero
        step2      == OverflowingSubI64(self.hi, hi_offset)
        step3      == OverflowingSubI64(step2.val, other.hi)
    IN  IF step2.ovf \/ step3.ovf THEN ArithmeticOverflow
        ELSE Ok(step3.val, lo)

\* floor(2^190 / 10^19): the reciprocal rounded down instead of up
ReciprocalRoundedDown ==
    FromDigits(<<1, 5, 6, 9, 2, 7, 5, 4, 3, 3, 8, 4, 6, 6, 7, 0, 1, 9, 0, 9,
                 5, 8, 9, 4, 7, 3, 5, 5, 8, 0, 1, 9, 1, 6, 6, 0, 4, 0, 2>>)

\* ceil(2^190 / 10^19), the reciprocal constant of decimalize
Reciprocal ==
    FromDigits(<<1, 5, 6, 9, 2, 7, 5, 4, 3, 3, 8, 4, 6, 6, 7, 0, 1, 9, 0, 9,
                 5, 8, 9, 4, 7, 3, 5, 5, 8, 0, 1, 9, 1, 6, 6, 0, 4, 0, 3>>)

ReciprocalShift == 190

\* decimalize: quotient and remainder of a u128 by 10^19
decimalize(num) ==
    LET res == BShr(WrapU256(BMul(num, Reciprocal)), ReciprocalShift)
        lo(hi) == WrapU64(WrappingSubU128(num, WrapU128(BMul(hi, DECIMAL_MAX))))
    IN  Bind(WrapU64(res), LAMBDA hi : [hi |-> hi, lo |-> lo(hi)])

\* the carries of mul across its four columns, from the decimalized partial
\* products ea, gf, jh and lk
MulCarries(final_is_negative, ea, gf, jh, lk) ==
    LET e == ea.hi
        f == gf.lo
        g == gf.hi
        h == jh.lo
        j == jh.hi
        k == lk.lo
        l == lk.hi
        \* b = e + f + h
        e_plus_f == OverflowingAddU64(e, f)
        b_carry1 == IF e_plus_f.ovf THEN One ELSE Zero
        b        == OverflowingAddU64(e_plus_f.val, h)
        b_carry2 == IF b.ovf THEN One ELSE Zero
        \* c = carry + g + j + k
        g_plus_j == OverflowingAddU64(g, j)
        c_carry1 == IF g_plus_j.ovf THEN One ELSE Zero
        g_plus_j_plus_k == OverflowingAddU64(g_plus_j.val, k)
        c_carry2 == IF g_plus_j_plus_k.ovf THEN One ELSE Zero
        c_without_bcarry2 == OverflowingAddU64(g_plus_j_plus_k.val, b_carry1)
        c_carry3 == IF c_without_bcarry2.ovf THEN One ELSE Zero
        c        == OverflowingAddU64(c_without_bcarry2.val, b_carry2)
        c_carry4 == IF c.ovf THEN One ELSE Zero
        \* d = carry + l
        d1 == OverflowingAddU64(l, c_carry1)
        d2 == OverflowingAddU64(d1.val, c_carry2)
        d3 == OverflowingAddU64(d2.val, c_carry3)
        d4 == OverflowingAddU64(d3.val, c_carry4)
    IN  IF BLe(c.val, I64_MAX) /\ d4.val = Zero
           /\ ~(d1.ovf \/ d2.ovf \/ d3.ovf \/ d4.ovf)
        THEN Ok(IF final_is_negative THEN NegI64(c.val) ELSE c.val, b.val)
        ELSE ArithmeticOverflow

\* the four partial products of mul, decimalized, then their columns
MulColumns(final_is_negative, self_hi, self_lo, other_hi, other_lo) ==
    Bind(<<decimalize(BMul(self_lo, other_lo)),
           decimalize(BMul(self_hi, other_lo)),
           decimalize(BMul(self_lo, other_hi)),
           decimalize(BMul(self_hi, other_hi))>>,
         LAMBDA p : MulCarries(final_is_negative, p[1], p[2], p[3], p[4]))

\* mul without the special cases of i64::MIN: a whole word without a
\* magnitude always overflows
mul_min_overflows(self, other) ==
    LET final_is_negative == IsNegative(self.hi) # IsNegative(other.hi)
        self_abs  == CheckedAbs(self.hi)
        other_abs == CheckedAbs(other.hi)
    IN  IF ~self_abs.some \/ ~other_abs.some THEN ArithmeticOverflow
        ELSE MulColumns(final_is_negative, self_abs.val, self.lo,
                        other_abs.val, other.lo)

\* impl Mul for RocDec
mul(self, other) ==
    LET final_is_negative == IsNegative(self.hi) # IsNegative(other.hi)
        self_abs  == CheckedAbs(self.hi)
        other_abs == CheckedAbs(other.hi)
    IN  IF ~self_abs.some
        THEN IF other.hi = Zero /\ other.lo = Zero THEN Ok(Zero, Zero)
             ELSE IF other.hi = One /\ other.lo = Zero THEN Ok(self.hi, Zero)
             ELSE ArithmeticOverflow
        ELSE IF ~other_abs.some
        THEN \* self_hi is by now the magnitude of self's whole word
             IF self_abs.val = Zero /\ self.lo = Zero THEN Ok(Zero, Zero)
             ELSE IF self_abs.val = One /\ self.lo = Zero THEN Ok(other.hi, Zero)
             ELSE ArithmeticOverflow
        ELSE MulColumns(final_is_negative, self_abs.val, self.lo,
                        other_abs.val, other.lo)

(***************************************************************************)
(* Text: a string is the sequence of its characters.                       *)
(***************************************************************************)
DigitChars == <<"0", "1", "2", "3", "4", "5", "6", "7", "8", "9">>

IsDigit(c) == \E d \in 1..10 : DigitChars[d] = c

DigitOf(c) == (CHOOSE d \in 1..10 : DigitChars[d] = c) - 1

\* u64::to_string
U64ToString(x) ==
    IF x = Zero THEN <<"0">>
    ELSE LET ds == ToDigits(x) IN [i \in 1..Len(ds) |-> DigitChars[ds[i] + 1]]

\* i64::to_string
I64ToString(h) ==
    IF IsNegative(h) THEN <<"-">> \o U64ToString(MagI64(h)) ELSE U64ToString(h)

\* format!("{:c>w}", s): fill on the left up to width w
PadLeft(s, w, c) ==
    IF Len(s) >= w THEN s ELSE [i \in 1..(w - Len(s)) |-> c] \o s

\* PadRight without the fill: the fraction digits are parsed as written
PadRightMissing(s, w, c) == s

\* format!("{:c<w}", s): fill on the right up to width w
PadRight(s, w, c) ==
    IF Len(s) >= w THEN s ELSE s \o [i \in 1..(w - Len(s)) |-> c]

\* str::trim_matches(c): c removed from both ends
TrimMatches(s, c) ==
    LET keep == {i \in 1..Len(s) : s[i] # c}
    IN  IF keep = {} THEN <<>>
        ELSE SubSeq(s, CHOOSE m \in keep : \A k \in keep : m <= k,
                       CHOOSE m \in keep : \A k \in keep : k <= m)

FractionDigits == 19

MinusOnePastMin ==
    <<"-", "9", "2", "2", "3", "3", "7", "2", "0", "3", "6", "8", "5", "4", "7",
      "7", "5", "8", "0", "9">>

OnePastMax ==
    <<"9", "2", "2", "3", "3", "7", "2", "0", "3", "6", "8", "5", "4", "7", "7",
      "5", "8", "0", "8">>

I64MinText ==
    <<"-", "9", "2", "2", "3", "3", "7", "2", "0", "3", "6", "8", "5", "4", "7",
      "7", "5", "8", "0", "8">>

\* RocDec::to_string
to_string(self) ==
    LET hi == self.hi
        lo == self.lo
        lo_offset   == IF BLe(DECIMAL_MAX, lo) THEN DECIMAL_MAX ELSE Zero
        after_point == BSub(lo, lo_offset)
        hi_offset   == IF lo_offset = Zero THEN Zero ELSE One
        before ==
            IF IsPositive(hi)
            THEN U64ToString(WrapU64(BAdd(hi, hi_offset)))
            ELSE IF hi # I64_MIN
            THEN I64ToString(OverflowingSubI64(hi, hi_offset).val)
            ELSE IF lo_offset = Zero THEN I64MinText ELSE MinusOnePastMin
        after ==
            IF after_point = Zero THEN <<".", "0">>
            ELSE TrimMatches(
                     <<".">> \o PadLeft(U64ToString(after_point), FractionDigits, "0"),
                     "0")
    IN  before \o after

\* the digits of a numeric literal after its sign, as a natural; none when
\* some character is not a digit
ParseDigits(s) ==
    IF \A i \in 1..Len(s) : IsDigit(s[i])
    THEN [some |-> TRUE, val |-> FromDigits([i \in 1..Len(s) |-> DigitOf(s[i])])]
    ELSE [some |-> FALSE, val |-> Zero]

\* str::parse::<u64>: an optional '+', then digits, within u64
ParseU64(s) ==
    IF Len(s) = 0 \/ s = <<"+">> \/ s = <<"-">> THEN [some |-> FALSE, val |-> Zero]
    ELSE LET digits == IF s[1] = "+" THEN Tail(s) ELSE s
             n      == ParseDigits(digits)
         IN  IF n.some /\ BLe(n.val, U64_MAX) THEN n
             ELSE [some |-> FALSE, val |-> Zero]

\* str::parse::<i64>: an optional '+' or '-', then digits, within i64
ParseI64(s) ==
    IF Len(s) = 0 \/ s = <<"+">> \/ s = <<"-">> THEN [some |-> FALSE, val |-> Zero]
    ELSE LET negative == s[1] = "-"
             digits   == IF s[1] = "+" \/ s[1] = "-" THEN Tail(s) ELSE s
             n        == ParseDigits(digits)
         IN  IF ~n.some THEN [some |-> FALSE, val |-> Zero]
             ELSE IF negative
             THEN IF BLe(n.val, TwoPow63) THEN [some |-> TRUE, val |-> NegI64(n.val)]
                  ELSE [some |-> FALSE, val |-> Zero]
             ELSE IF BLe(n.val, I64_MAX) THEN n
             ELSE [some |-> FALSE, val |-> Zero]

\* TryFrom<&str> for RocDec
try_from(value) ==
    LET dots == {i \in 1..Len(value) : value[i] = "."}
    IN  IF Cardinality(dots) # 1 THEN ParseError
        ELSE LET dot == CHOOSE i \in dots : TRUE
                 before_point == SubSeq(value, 1, dot - 1)
                 after_point  == SubSeq(value, dot + 1, Len(value))
                 lo == ParseU64(PadRight(after_point, FractionDigits, "0"))
                 hi == ParseI64(before_point)
                 bumped == CheckedAddU64(lo.val, DECIMAL_MAX)
             IN  IF ~lo.some THEN ParseError
                 ELSE IF hi.some THEN Ok(hi.val, lo.val)
                 ELSE IF before_point = MinusOnePastMin
                 THEN IF bumped.some THEN Ok(I64_MIN, bumped.val) ELSE ParseError
                 ELSE IF before_point = OnePastMax
                 THEN IF bumped.some THEN Ok(I64_MAX, bumped.val) ELSE ParseError
                 ELSE ParseError

(***************************************************************************)
(* The state machine: two operands are constructed, then one operation of  *)
(* the public interface is applied to them.  pc records what has run.      *)
(***************************************************************************)
VARIABLES a, b, pc, res, txt, num

vars == <<a, b, pc, res, txt, num>>

\* whole words are drawn from -MaxWhole..MaxWhole and the ends of the i64 range
MaxWhole == 2

\* fraction words are drawn from 0..MaxUlp and the marks of Fractions
MaxUlp == 1

\* a small integer as an i64 bit pattern
I64Of(n) == IF n >= 0 THEN BNat(n) ELSE NegI64(BNat(-n))

\* n / 100 as a fraction word
Hundredths(n) == BMul(BNat(n), Pow10(FractionDigits - 2))

Wholes ==
    {I64Of(n) : n \in (-MaxWhole)..MaxWhole}
        \cup {I64_MIN, BAdd(I64_MIN, One), I64_MAX}

Fractions ==
    {BNat(n) : n \in 0..MaxUlp}
        \cup {Hundredths(20), Hundredths(30), Hundredths(50), Hundredths(95),
              BSub(DECIMAL_MAX, One), DECIMAL_MAX, BAdd(DECIMAL_MAX, One), U64_MAX}

Values == {new(w, f) : w \in Wholes, f \in Fractions}

ZeroDec == new(Zero, Zero)

OneDec == new(One, Zero)

\* the second operand of a multiplication
Multipliers ==
    {ZeroDec, OneDec, new(MinusOne, Zero), new(Zero, Hundredths(50)),
     new(One, Hundredths(95)), new(I64_MIN, Zero), new(I64_MIN, One)}

Pending == [err |-> "pending", hi |-> Zero, lo |-> Zero]

InitAddSub ==
    /\ a \in Values
    /\ b \in Values
    /\ pc = "new"
    /\ res = Pending
    /\ txt = <<>>
    /\ num = Zero

InitMul ==
    /\ a \in Values
    /\ b \in Multipliers
    /\ pc = "new"
    /\ res = Pending
    /\ txt = <<>>
    /\ num = Zero

InitText ==
    /\ a \in Values
    /\ b = ZeroDec
    /\ pc = "new"
    /\ res = Pending
    /\ txt = <<>>
    /\ num = Zero

\* a + b
AddStep ==
    /\ pc = "new"
    /\ res' = add(a, b)
    /\ pc' = "added"
    /\ UNCHANGED <<a, b, txt, num>>

\* a - b
SubStep ==
    /\ pc = "new"
    /\ res' = sub(a, b)
    /\ pc' = "subtracted"
    /\ UNCHANGED <<a, b, txt, num>>

\* (a + b) - b, once a + b has returned
SubBack ==
    /\ pc = "added"
    /\ IsOk(res)
    /\ res' = sub(Value(res), b)
    /\ pc' = "added_subtracted"
    /\ UNCHANGED <<a, b, txt, num>>

\* a * b
MulStep ==
    /\ pc = "new"
    /\ res' = mul(a, b)
    /\ pc' = "multiplied"
    /\ UNCHANGED <<a, b, txt, num>>

\* b * a
MulReversed ==
    /\ pc = "new"
    /\ res' = mul(b, a)
    /\ pc' = "multiplied_reversed"
    /\ UNCHANGED <<a, b, txt, num>>

\* a.to_string()
Format ==
    /\ pc = "new"
    /\ txt' = to_string(a)
    /\ pc' = "formatted"
    /\ UNCHANGED <<a, b, res, num>>

\* txt.try_into()
Parse ==
    /\ pc = "formatted"
    /\ res' = try_from(txt)
    /\ pc' = "parsed"
    /\ UNCHANGED <<a, b, txt, num>>

NextAddSub == AddStep \/ SubStep \/ SubBack

NextMul == MulStep \/ MulReversed

NextText == Format \/ Parse

SpecAddSub == InitAddSub /\ [][NextAddSub]_vars

SpecMul == InitMul /\ [][NextMul]_vars

SpecText == InitText /\ [][NextText]_vars

\* fraction segments of up to MaxZeros zeros and a final digit are parsed
MaxZeros == 20

\* the segments before the '.' of the texts that are parsed
WholeTexts ==
    {<<>>, <<"0">>, <<"1">>, <<"-", "1">>, <<"+", "2">>, <<"x">>,
     I64ToString(I64_MAX), I64MinText, OnePastMax, MinusOnePastMin}

\* the segments after the '.' of the texts that are parsed
FractionTexts ==
    {[i \in 1..n |-> "0"] \o <<"1">> : n \in 0..MaxZeros}
        \cup {<<>>, <<"0">>, <<"+", "5">>, <<"-", "5">>, <<"5", "a">>,
              <<"5", ".", "0">>,
              U64ToString(BSub(DECIMAL_MAX, One)), U64ToString(DECIMAL_MAX),
              U64ToString(BSub(U64_MAX, DECIMAL_MAX)),
              U64ToString(BAdd(BSub(U64_MAX, DECIMAL_MAX), One)),
              U64ToString(U64_MAX), U64ToString(BAdd(U64_MAX, One))}

Inputs == {w \o <<".">> \o f : w \in WholeTexts, f \in FractionTexts} \cup WholeTexts

InitParse ==
    /\ a = ZeroDec
    /\ b = ZeroDec
    /\ pc = "input"
    /\ res = Pending
    /\ txt \in Inputs
    /\ num = Zero

\* txt.try_into(), for a text that was not formatted by to_string
ParseInput ==
    /\ pc = "input"
    /\ res' = try_from(txt)
    /\ pc' = "parsed_input"
    /\ UNCHANGED <<a, b, txt, num>>

NextParse == ParseInput

SpecParse == InitParse /\ [][NextParse]_vars

\* quotients by 10^19 of the decimalized numbers run over 0..MaxQuot, and
\* over the neighbours of 2^63, of 2^64 and of the largest quotient of a u128
MaxQuot == 6

\* floor((2^128 - 1) / 10^19)
QuotientMax ==
    FromDigits(<<3, 4, 0, 2, 8, 2, 3, 6, 6, 9, 2, 0, 9, 3, 8, 4, 6, 3, 4, 6>>)

Quotients ==
    {BNat(q) : q \in 0..MaxQuot}
        \cup {TwoPow63, U64_MAX, TwoPow64, BAdd(TwoPow64, One),
              BSub(QuotientMax, One), QuotientMax}

Remainders ==
    {Zero, One, Hundredths(50), BSub(DECIMAL_MAX, BNat(2)), BSub(DECIMAL_MAX, One)}

\* the u128 arguments of decimalize
Numbers ==
    {n \in {BAdd(BMul(q, DECIMAL_MAX), r) : q \in Quotients, r \in Remainders}
           \cup {BSub(TwoPow128, One), BMul(U64_MAX, U64_MAX)} :
        BLt(n, TwoPow128)}

InitDecimalize ==
    /\ a = ZeroDec
    /\ b = ZeroDec
    /\ pc = "number"
    /\ res = Pending
    /\ txt = <<>>
    /\ num \in Numbers

\* decimalize(num): res holds the pair (hi, lo)
Decimalize ==
    /\ pc = "number"
    /\ res' = LET pair == decimalize(num) IN Ok(pair.hi, pair.lo)
    /\ pc' = "decimalized"
    /\ UNCHANGED <<a, b, txt, num>>

NextDecimalize == Decimalize

SpecDecimalize == InitDecimalize /\ [][NextDecimalize]_vars

(***************************************************************************)
(* The decimal value of a RocDec, scaled by 10^19, as a signed integer     *)
(* [neg, mag]: whole + fraction/10^19 for a whole word >= 0 and            *)
(* whole - fraction/10^19 for a whole word < 0.                            *)
(***************************************************************************)
Magnitude(v) == BAdd(BMul(MagI64(v.hi), DECIMAL_MAX), v.lo)

Val(v) == [neg |-> IsNegative(v.hi), mag |-> Magnitude(v)]

ZNeg(x) == IF x.mag = Zero THEN x ELSE [neg |-> ~x.neg, mag |-> x.mag]

ZAdd(x, y) ==
    IF x.neg = y.neg THEN [neg |-> x.neg, mag |-> BAdd(x.mag, y.mag)]
    ELSE IF x.mag = y.mag THEN [neg |-> FALSE, mag |-> Zero]
    ELSE IF BLt(x.mag, y.mag) THEN [neg |-> y.neg, mag |-> BSub(y.mag, x.mag)]
    ELSE [neg |-> x.neg, mag |-> BSub(x.mag, y.mag)]

ZSub(x, y) == ZAdd(x, ZNeg(y))

\* the fraction word holds 19 decimal digits
Normalized(v) == BLt(v.lo, DECIMAL_MAX)

(***************************************************************************)
(* Properties.                                                             *)
(***************************************************************************)

\* C1: for operands with fraction < 10^19, whenever add(a, b) returns r,
\* val(r) = val(a) + val(b), and whenever sub(a, b) returns r,
\* val(r) = val(a) - val(b).
ExactAddSub ==
    /\ (pc = "added" /\ Normalized(a) /\ Normalized(b) /\ IsOk(res))
           => Val(Value(res)) = ZAdd(Val(a), Val(b))
    /\ (pc = "subtracted" /\ Normalized(a) /\ Normalized(b) /\ IsOk(res))
           => Val(Value(res)) = ZSub(Val(a), Val(b))

\* C2: for operands with fraction < 10^19 and whole # i64::MIN, whenever
\* mul(a, b) returns r, |r.whole| * 10^19 + r.fraction is the floor of
\* A * B / 10^19, where A and B are the operands' magnitudes scaled by 10^19.
MulAgreesWithOracle ==
    (/\ pc = "multiplied"
     /\ Normalized(a) /\ Normalized(b)
     /\ a.hi # I64_MIN /\ b.hi # I64_MIN
     /\ IsOk(res))
        => LET product  == BMul(Magnitude(a), Magnitude(b))
               quotient == Magnitude(Value(res))
           IN  /\ BLe(BMul(quotient, DECIMAL_MAX), product)
               /\ BLt(product, BMul(BAdd(quotient, One), DECIMAL_MAX))

\* C3: parsing the text of any value succeeds, and the parsed value has the
\* same text.
RoundTrip ==
    pc = "parsed" => IsOk(res) /\ to_string(Value(res)) = txt

\* a value one past i64::MAX, formatted and parsed back to the same text
RoundTripWitness ==
    /\ pc = "parsed"
    /\ a.hi = I64_MAX
    /\ BLe(DECIMAL_MAX, a.lo)
    /\ IsOk(res)
    /\ to_string(Value(res)) = txt

\* C4: when add(a, b) returns a value and the following sub returns a value,
\* sub(add(a, b), b) is a, whole word and fraction word.
AdditiveInverse ==
    (pc = "added_subtracted" /\ IsOk(res)) => Value(res) = a

\* C5: add(a, b) and add(b, a) have the same outcome: both overflow or both
\* return the same pair of words.
AddCommutes ==
    pc = "added" => res = add(b, a)

\* C6: mul(a, b) and mul(b, a) have the same outcome: both overflow or both
\* return the same pair of words.
MulCommutes ==
    pc = "multiplied" => res = mul(b, a)

\* C7: mul(a, new(1, 0)) never overflows and returns a itself, whole word
\* and fraction word.
MulIdentity ==
    (pc = "multiplied" /\ b = OneDec) => res = Ok(a.hi, a.lo)

\* C8: when mul(a, b) returns r, r is negative exactly when one of a, b is
\* negative and neither is zero.
MulSignLaw ==
    (pc = "multiplied" /\ IsOk(res))
        => (IsNegative(res.hi)
               <=> (/\ IsNegative(a.hi) # IsNegative(b.hi)
                    /\ a # ZeroDec
                    /\ b # ZeroDec))

\* what C9 expects of the product of m, whose whole word is i64::MIN, and o
MinProduct(m, o) ==
    IF o = ZeroDec THEN Ok(Zero, Zero)
    ELSE IF o = OneDec THEN Ok(m.hi, m.lo)
    ELSE ArithmeticOverflow

\* C9: an operand m with whole word i64::MIN times o, in either order, is
\* new(0, 0) when o is zero, m unchanged when o is new(1, 0), and an
\* arithmetic overflow for every other o.
MulSignedMinimum ==
    /\ (pc = "multiplied" /\ a.hi = I64_MIN) => res = MinProduct(a, b)
    /\ (pc = "multiplied" /\ b.hi = I64_MIN) => res = MinProduct(b, a)
    /\ (pc = "multiplied_reversed" /\ a.hi = I64_MIN) => res = MinProduct(a, b)
    /\ (pc = "multiplied_reversed" /\ b.hi = I64_MIN) => res = MinProduct(b, a)

\* C10: mul(a, new(0, 0)) and mul(new(0, 0), a) return new(0, 0) for every a,
\* and never overflow.
MulZeroLaw ==
    (pc \in {"multiplied", "multiplied_reversed"} /\ b = ZeroDec)
        => res = Ok(Zero, Zero)

\* zero times a value one past i64::MIN
MulZeroLawWitness ==
    /\ pc = "multiplied_reversed"
    /\ b = ZeroDec
    /\ a.hi = I64_MIN
    /\ BLe(DECIMAL_MAX, a.lo)
    /\ res = Ok(Zero, Zero)

\* what C11 expects of the text of v, whose fraction word is >= 10^19: the
\* whole part one further from zero, the fractional part from the fraction
\* word less 10^19
AwayFromZeroText(v) ==
    LET whole ==
            IF v.hi = I64_MAX THEN OnePastMax
            ELSE IF v.hi = I64_MIN THEN MinusOnePastMin
            ELSE IF IsNegative(v.hi) THEN I64ToString(NegI64(BAdd(MagI64(v.hi), One)))
            ELSE U64ToString(BAdd(v.hi, One))
        rest == BSub(v.lo, DECIMAL_MAX)
        fraction ==
            IF rest = Zero THEN <<".", "0">>
            ELSE TrimMatches(
                     <<".">> \o PadLeft(U64ToString(rest), FractionDigits, "0"),
                     "0")
    IN  whole \o fraction

\* C11: the text of a value with fraction >= 10^19 has the whole part
\* whole + 1 when whole >= 0 (whole = 0 included) and whole - 1 when
\* whole < 0, and the fractional part of fraction - 10^19.
FormatAwayFromZero ==
    (pc = "formatted" /\ BLe(DECIMAL_MAX, a.lo)) => txt = AwayFromZeroText(a)

\* the segments of a text with exactly one '.'
OneDot(s) == Cardinality({i \in 1..Len(s) : s[i] = "."}) = 1

DotAt(s) == CHOOSE i \in 1..Len(s) : s[i] = "."

BeforeDot(s) == SubSeq(s, 1, DotAt(s) - 1)

AfterDot(s) == SubSeq(s, DotAt(s) + 1, Len(s))

\* C12: for a text with exactly one '.', a segment after the '.' of more
\* than 19 characters, or with a character that is not a decimal digit, is a
\* ParseError; and a parsed value whose whole segment is not a boundary
\* string has fraction < 10^19.
ParseRejectsFraction ==
    (pc = "parsed_input" /\ OneDot(txt))
        => LET after == AfterDot(txt)
           IN  /\ (\/ Len(after) > FractionDigits
                   \/ \E i \in 1..Len(after) : ~IsDigit(after[i]))
                      => res = ParseError
               /\ (/\ IsOk(res)
                   /\ BeforeDot(txt) \notin {OnePastMax, MinusOnePastMin})
                      => Normalized(Value(res))

\* an i64 word as a signed integer [neg, mag]
IntOf(h) == [neg |-> IsNegative(h), mag |-> MagI64(h)]

InI64Range(z) == IF z.neg THEN BLe(z.mag, TwoPow63) ELSE BLe(z.mag, I64_MAX)

\* the carry of add (adding) or sub (~adding): +1 or -1 with the sign of the
\* first operand when the chosen operation on the fraction words wrapped
CarryOf(self, other, adding) ==
    LET same_sign == IsPositive(self.hi) = IsPositive(other.hi)
        wrapped   == IF same_sign = adding
                     THEN OverflowingAddU64(self.lo, other.lo).ovf
                     ELSE OverflowingSubU64(self.lo, other.lo).ovf
    IN  IF ~wrapped THEN [neg |-> FALSE, mag |-> Zero]
        ELSE [neg |-> ~IsPositive(self.hi), mag |-> One]

\* C13: add(a, b) overflows exactly when the integer a.whole + c + b.whole is
\* outside the i64 range, and sub(a, b) exactly when a.whole - c - b.whole
\* is, c being the carry; a step that leaves the range while the whole
\* combination is in range is no overflow.
OverflowWhenOutOfRange ==
    /\ pc = "added"
           => (res = ArithmeticOverflow
                   <=> ~InI64Range(ZAdd(ZAdd(IntOf(a.hi), CarryOf(a, b, TRUE)),
                                        IntOf(b.hi))))
    /\ pc = "subtracted"
           => (res = ArithmeticOverflow
                   <=> ~InI64Range(ZSub(ZSub(IntOf(a.hi), CarryOf(a, b, FALSE)),
                                        IntOf(b.hi))))

\* 2^64 * 10^19: from here on the quotient of num by 10^19 needs 65 bits
QuotientWide == BMul(TwoPow64, DECIMAL_MAX)

\* C14: decimalize(num) = (hi, lo) where hi is the low 64 bits of
\* floor(num / 10^19), hi * 10^19 <= num (the subtraction does not
\* underflow), lo is num - hi * 10^19 in 64 bits, and when the quotient fits
\* in 64 bits hi * 10^19 + lo = num with lo < 10^19.
DecimalizeExact ==
    pc = "decimalized"
        => /\ \E t \in {Zero, TwoPow64} :
                  LET quotient == BAdd(res.hi, t)
                  IN  /\ BLe(BMul(quotient, DECIMAL_MAX), num)
                      /\ BLt(num, BMul(BAdd(quotient, One), DECIMAL_MAX))
           /\ BLe(BMul(res.hi, DECIMAL_MAX), num)
           /\ res.lo = WrapU64(BSub(num, BMul(res.hi, DECIMAL_MAX)))
           /\ BLt(num, QuotientWide)
                  => /\ BLt(res.lo, DECIMAL_MAX)
                     /\ BAdd(BMul(res.hi, DECIMAL_MAX), res.lo) = num

\* the largest remainder under the largest quotient of a u128, split exactly
DecimalizeExactWitness ==
    /\ pc = "decimalized"
    /\ num = BAdd(BMul(BSub(QuotientMax, One), DECIMAL_MAX),
                  BSub(DECIMAL_MAX, One))
    /\ BAdd(res.hi, TwoPow64) = BSub(QuotientMax, One)
    /\ BLe(BMul(res.hi, DECIMAL_MAX), num)

====
